---- MODULE Spec2Model ----
(***************************************************************************)
(* Model of the code-progress tracker: the commit categorizer and change   *)
(* extractor (progress_tracker.py), the vector-store facade                *)
(* (storage_service.py) and the HTTP handlers (main.py).                   *)
(*                                                                         *)
(* Python strings are sequences of one-character strings, so that          *)
(* endswith, "in", lower, split, replace, strip, join and json.dumps are   *)
(* computed the way Python computes them.                                  *)
(***************************************************************************)
EXTENDS Integers, Sequences, FiniteSets, TLC

VARIABLES
    now,        \* what datetime.now() reads: the wall clock at its resolution
    repo,       \* the git history, newest commit first
    store,      \* the documents of the Qdrant collection, in insertion order
    added,      \* history: the entries handed to add_entry, in the same order
    pc,         \* "idle", or "sync" while sync_from_git is inside its loop
    sync,       \* the locals of sync_from_git
    last,       \* the last operation and what it returned
    cFiles,     \* categorizer input: the commit's file paths
    cMsg,       \* categorizer input: the commit's message
    cResult     \* categorizer output, NoResult before the call

vars == <<now, repo, store, added, pc, sync, last, cFiles, cMsg, cResult>>

(***************************************************************************)
(* Bounds of the model.                                                    *)
(***************************************************************************)
\* the most file paths of a commit given to the categorizer
MaxFiles == 2
\* the last day the clock reaches, the first being day 0
MaxDay == 1
\* the most commits in the history
MaxCommits == 2
\* the most documents in the collection
MaxStore == 2

(***************************************************************************)
(* Python str primitives.                                                  *)
(***************************************************************************)
LowerMap ==
    ("A" :> "a") @@ ("B" :> "b") @@ ("C" :> "c") @@ ("D" :> "d") @@ ("E" :> "e") @@ ("F" :> "f")
    @@ ("G" :> "g") @@ ("H" :> "h") @@ ("I" :> "i") @@ ("J" :> "j") @@ ("K" :> "k") @@ ("L" :> "l")
    @@ ("M" :> "m") @@ ("N" :> "n") @@ ("O" :> "o") @@ ("P" :> "p") @@ ("Q" :> "q") @@ ("R" :> "r")
    @@ ("S" :> "s") @@ ("T" :> "t") @@ ("U" :> "u") @@ ("V" :> "v") @@ ("W" :> "w") @@ ("X" :> "x")
    @@ ("Y" :> "y") @@ ("Z" :> "z")

LowerChar(c) == IF c \in DOMAIN LowerMap THEN LowerMap[c] ELSE c

\* s.lower()
Lower(s) == [i \in 1..Len(s) |-> LowerChar(s[i])]

\* s.endswith(suf)
EndsWith(s, suf) ==
    /\ Len(s) >= Len(suf)
    /\ SubSeq(s, Len(s) - Len(suf) + 1, Len(s)) = suf

StartsWithAt(s, i, sub) ==
    /\ i + Len(sub) - 1 <= Len(s)
    /\ SubSeq(s, i, i + Len(sub) - 1) = sub

\* sub in s
Contains(s, sub) == \E i \in 1..(Len(s) + 1) : StartsWithAt(s, i, sub)

(***************************************************************************)
(* The categorizer.                                                        *)
(***************************************************************************)
CatTesting == <<"t","e","s","t","i","n","g">>
CatUi == <<"u","i">>
CatBugfix == <<"b","u","g","f","i","x">>
CatFeature == <<"f","e","a","t","u","r","e">>
CatRefactor == <<"r","e","f","a","c","t","o","r">>
CatOther == <<"o","t","h","e","r">>

Categories == {CatTesting, CatUi, CatBugfix, CatFeature, CatRefactor, CatOther}

TestSuffixes == {<<".","t","e","s","t",".","t","s">>, <<".","s","p","e","c",".","t","s">>, <<"t","e","s","t",".","p","y">>}
UiSuffixes == {<<".","c","s","s">>, <<".","s","c","s","s">>, <<".","h","t","m","l">>}

AnyEndsWith(files, suffixes) ==
    \E i \in 1..Len(files) : \E suf \in suffixes : EndsWith(files[i], suf)

\* the rules with ui and bugfix in the other order
CategorizeSwapped(files, message) ==
    LET msg == Lower(message) IN
    IF AnyEndsWith(files, TestSuffixes) THEN CatTesting
    ELSE IF Contains(msg, <<"f","i","x">>) \/ Contains(msg, <<"b","u","g">>) THEN CatBugfix
    ELSE IF AnyEndsWith(files, UiSuffixes) THEN CatUi
    ELSE IF Contains(msg, <<"f","e","a","t","u","r","e">>) THEN CatFeature
    ELSE IF Contains(msg, <<"r","e","f","a","c","t","o","r">>) THEN CatRefactor
    ELSE CatOther

\* the rules without the final else: Python then returns None
CategorizeNoElse(files, message) ==
    LET msg == Lower(message) IN
    IF AnyEndsWith(files, TestSuffixes) THEN CatTesting
    ELSE IF AnyEndsWith(files, UiSuffixes) THEN CatUi
    ELSE IF Contains(msg, <<"f","i","x">>) \/ Contains(msg, <<"b","u","g">>) THEN CatBugfix
    ELSE IF Contains(msg, <<"f","e","a","t","u","r","e">>) THEN CatFeature
    ELSE IF Contains(msg, <<"r","e","f","a","c","t","o","r">>) THEN CatRefactor
    ELSE <<"N","o","n","e">>

_categorize_commit(files, message) ==
    LET msg == Lower(message) IN
    IF AnyEndsWith(files, TestSuffixes) THEN CatTesting
    ELSE IF AnyEndsWith(files, UiSuffixes) THEN CatUi
    ELSE IF Contains(msg, <<"f","i","x">>) \/ Contains(msg, <<"b","u","g">>) THEN CatBugfix
    ELSE IF Contains(msg, <<"f","e","a","t","u","r","e">>) THEN CatFeature
    ELSE IF Contains(msg, <<"r","e","f","a","c","t","o","r">>) THEN CatRefactor
    ELSE CatOther

(***************************************************************************)
(* Categorizer inputs: file paths and messages that hit every rule, alone  *)
(* and in combination.                                                     *)
(***************************************************************************)
FileNames ==
    {<<"a",".","t","e","s","t",".","t","s">>, <<"a",".","s","p","e","c",".","t","s">>, <<"c","o","n","t","e","s","t",".","p","y">>, <<"m",".","c","s","s">>, <<"m",".","s","c","s","s">>,
     <<"i",".","h","t","m","l">>, <<"a","p","i",".","p","y">>, <<"c","s","s",".","p","y">>}

Messages ==
    {<<"F","i","x"," ","c","r","a","s","h">>, <<"d","e","b","u","g">>, <<"a","d","d"," ","F","e","a","t","u","r","e">>, <<"R","E","F","A","C","T","O","R">>, <<"f","e","a","t","u","r","e"," ","f","i","x">>,
     <<"r","e","f","a","c","t","o","r"," ","f","e","a","t","u","r","e">>, <<"d","o","c","s">>, << >>}

SeqsUpTo(S, n) == UNION {[1..k -> S] : k \in 0..n}

FileLists == SeqsUpTo(FileNames, MaxFiles)

NoResult == << >>

(***************************************************************************)
(* The wall clock.  A datetime is a record of its fields.  The times of    *)
(* day are sampled: midnight, and an afternoon minute at its start and 45  *)
(* seconds into it; the days are bounded by MaxDay.                        *)
(***************************************************************************)
TimesOfDay ==
    {[hour |-> 0, minute |-> 0, second |-> 0],
     [hour |-> 14, minute |-> 30, second |-> 0],
     [hour |-> 14, minute |-> 30, second |-> 45]}

Times ==
    {[day |-> d, hour |-> c.hour, minute |-> c.minute, second |-> c.second] :
        d \in 0..MaxDay, c \in TimesOfDay}

\* datetime.timestamp(): seconds since day 0, 00:00:00
timestamp(t) == ((t.day * 24 + t.hour) * 60 + t.minute) * 60 + t.second

\* datetime.fromtimestamp(n)
fromtimestamp(n) ==
    [day |-> n \div 86400, hour |-> (n % 86400) \div 3600,
     minute |-> (n % 3600) \div 60, second |-> n % 60]

Before(a, b) == timestamp(a) < timestamp(b)

DigitChars == <<"0", "1", "2", "3", "4", "5", "6", "7", "8", "9">>

RECURSIVE Str(_)
\* str(n) of a non-negative int
Str(n) == IF n < 10 THEN <<DigitChars[n + 1]>>
          ELSE Str(n \div 10) \o <<DigitChars[(n % 10) + 1]>>

\* str(x) of a float holding a whole number of seconds
StrFloat(n) == Str(n) \o <<".","0">>

(***************************************************************************)
(* The version-control collaborator.                                       *)
(***************************************************************************)
CommitFixTest ==
    [message |-> <<"F","i","x"," ","c","r","a","s","h">>, files |-> <<<<"a",".","t","e","s","t",".","t","s">>>>,
     author |-> <<"a","n","n">>, insertions |-> 12, deletions |-> 3]

CommitDebug ==
    [message |-> <<"d","e","b","u","g">>, files |-> <<<<"a","p","i",".","p","y">>>>,
     author |-> <<"b","o","b">>, insertions |-> 1, deletions |-> 0]

CommitDocs ==
    [message |-> <<"d","o","c","s">>, files |-> << >>,
     author |-> <<"a","n","n">>, insertions |-> 0, deletions |-> 0]

CommitInputs == {CommitFixTest, CommitDebug, CommitDocs}

\* a commit made at the time at; committed_date is seconds since the epoch
NewCommit(in, at, sha) ==
    [committed_date |-> timestamp(at), hexsha |-> sha, message |-> in.message,
     files |-> in.files, author |-> in.author,
     insertions |-> in.insertions, deletions |-> in.deletions]

\* repo.iter_commits(since=since): newest first, committed at or after since
iter_commits(since) ==
    SelectSeq(repo, LAMBDA c : c.committed_date >= timestamp(since))

(***************************************************************************)
(* ProgressTracker.                                                        *)
(***************************************************************************)
\* an id that does not count the changes made so far
ChangeIdConstant(changes) == <<"0">>

\* id=str(len(changes))
ChangeId(changes) == Str(Len(changes))

CodeChange(commit, changes) ==
    [id |-> ChangeId(changes),
     timestamp |-> fromtimestamp(commit.committed_date),
     files_changed |-> commit.files,
     description |-> commit.message,
     category |-> _categorize_commit(commit.files, commit.message),
     commit_hash |-> commit.hexsha,
     metadata |-> [author |-> commit.author,
                   lines_added |-> Str(commit.insertions),
                   lines_deleted |-> Str(commit.deletions)]]

RECURSIVE ExtractChanges(_, _)
ExtractChanges(commits, changes) ==
    IF commits = << >> THEN changes
    ELSE ExtractChanges(Tail(commits),
                        Append(changes, CodeChange(Head(commits), changes)))

get_recent_changes(since) == ExtractChanges(iter_commits(since), << >>)

StartOfDay(t) == [t EXCEPT !.hour = 0, !.minute = 0]

create_progress_entry(title, description, category, tags, impact_level) ==
    [id |-> StrFloat(timestamp(now)),
     date |-> now,
     title |-> title,
     description |-> description,
     changes |-> get_recent_changes(StartOfDay(now)),
     category |-> category,
     tags |-> tags,
     impact_level |-> impact_level]

(***************************************************************************)
(* More str primitives, used by the storage facade.                        *)
(***************************************************************************)
RECURSIVE Join(_, _)
\* sep.join(items)
Join(sep, items) ==
    IF items = << >> THEN << >>
    ELSE IF Len(items) = 1 THEN items[1]
    ELSE items[1] \o sep \o Join(sep, Tail(items))

RECURSIVE Split(_, _)
\* s.split(c) for a one-character separator c
Split(s, c) ==
    IF \A i \in 1..Len(s) : s[i] # c THEN <<s>>
    ELSE LET i == CHOOSE k \in 1..Len(s) :
                      s[k] = c /\ \A j \in 1..(k - 1) : s[j] # c
         IN  <<SubSeq(s, 1, i - 1)>> \o Split(SubSeq(s, i + 1, Len(s)), c)

RECURSIVE Replace(_, _, _)
\* s.replace(old, new), old not empty: every occurrence, left to right
Replace(s, old, new) ==
    IF s = << >> THEN << >>
    ELSE IF StartsWithAt(s, 1, old)
         THEN new \o Replace(SubSeq(s, Len(old) + 1, Len(s)), old, new)
         ELSE <<Head(s)>> \o Replace(Tail(s), old, new)

Whitespace == {" ", "\n", "\t", "\r"}

RECURSIVE LStrip(_)
LStrip(s) == IF s # << >> /\ Head(s) \in Whitespace THEN LStrip(Tail(s)) ELSE s

RECURSIVE RStrip(_)
RStrip(s) ==
    IF s # << >> /\ s[Len(s)] \in Whitespace
    THEN RStrip(SubSeq(s, 1, Len(s) - 1)) ELSE s

\* s.strip()
Strip(s) == RStrip(LStrip(s))

RECURSIVE ToInt(_)
\* int(s) of a string of digits
ToInt(s) ==
    IF s = << >> THEN 0
    ELSE 10 * ToInt(SubSeq(s, 1, Len(s) - 1))
         + (CHOOSE d \in 0..9 : DigitChars[d + 1] = s[Len(s)])

Pad2(n) == IF n < 10 THEN <<"0">> \o Str(n) ELSE Str(n)

ClockStr(t) ==
    Pad2(t.hour) \o <<":">> \o Pad2(t.minute) \o <<":">> \o Pad2(t.second)

\* str(datetime): the date (here the day number), a space, the time of day
DateStr(t) == Str(t.day) \o <<" ">> \o ClockStr(t)

\* datetime.isoformat(): the same with a "T" between date and time
isoformat(t) == Str(t.day) \o <<"T">> \o ClockStr(t)

\* datetime.fromisoformat(s)
fromisoformat(s) ==
    LET parts == Split(s, "T")
        hms == Split(parts[2], ":")
    IN  [day |-> ToInt(parts[1]), hour |-> ToInt(hms[1]),
         minute |-> ToInt(hms[2]), second |-> ToInt(hms[3])]

RECURSIVE JsonEscape(_)
JsonEscape(s) ==
    IF s = << >> THEN << >>
    ELSE (CASE Head(s) = "\"" -> <<"\\", "\"">>
            [] Head(s) = "\\" -> <<"\\", "\\">>
            [] Head(s) = "\n" -> <<"\\", "n">>
            [] OTHER -> <<Head(s)>>) \o JsonEscape(Tail(s))

JsonString(s) == <<"\"">> \o JsonEscape(s) \o <<"\"">>

\* json.dumps(tags) of a list of str
json_dumps(tags) ==
    <<"[">> \o Join(<<","," ">>, [i \in 1..Len(tags) |-> JsonString(tags[i])]) \o <<"]">>

RECURSIVE JsonItems(_, _, _, _)
\* the strings of a JSON array of strings: s from position i on, cur the string
\* being read while inStr
JsonItems(s, i, cur, inStr) ==
    IF i > Len(s) THEN << >>
    ELSE IF inStr
         THEN IF s[i] = "\\"
              THEN JsonItems(s, i + 2,
                             Append(cur, IF s[i + 1] = "n" THEN "\n" ELSE s[i + 1]),
                             TRUE)
              ELSE IF s[i] = "\""
                   THEN <<cur>> \o JsonItems(s, i + 1, << >>, FALSE)
                   ELSE JsonItems(s, i + 1, Append(cur, s[i]), TRUE)
         ELSE JsonItems(s, i + 1, << >>, s[i] = "\"")

\* json.loads(s) of a JSON array of strings
json_loads(s) == JsonItems(s, 1, << >>, FALSE)

(***************************************************************************)
(* ProgressStorage.                                                        *)
(***************************************************************************)
FormatChange(change) ==
    <<"-"," ">> \o change.description \o <<"\n">>
    \o <<" "," ","F","i","l","e","s",":"," ">> \o Join(<<","," ">>, change.files_changed) \o <<"\n">>
    \o <<" "," ","C","a","t","e","g","o","r","y",":"," ">> \o change.category \o <<"\n">>
    \o <<" "," ","I","m","p","a","c","t",":"," ">> \o change.metadata.lines_added \o <<" ","a","d","d","i","t","i","o","n","s",","," ">>
    \o change.metadata.lines_deleted \o <<" ","d","e","l","e","t","i","o","n","s">>

_format_changes(changes) ==
    Join(<<"\n">>, [i \in 1..Len(changes) |-> FormatChange(changes[i])])

Indent == <<" "," "," "," "," "," "," "," ">>

\* the f-string of add_entry
EntryText(entry) ==
    <<"\n">>
    \o Indent \o <<"T","i","t","l","e",":"," ">> \o entry.title \o <<"\n">>
    \o Indent \o <<"D","a","t","e",":"," ">> \o DateStr(entry.date) \o <<"\n">>
    \o Indent \o <<"C","a","t","e","g","o","r","y",":"," ">> \o entry.category \o <<"\n">>
    \o Indent \o <<"T","a","g","s",":"," ">> \o Join(<<","," ">>, entry.tags) \o <<"\n">>
    \o Indent \o <<"I","m","p","a","c","t",":"," ">> \o entry.impact_level \o <<"\n">>
    \o Indent \o <<"\n">>
    \o Indent \o <<"D","e","s","c","r","i","p","t","i","o","n",":","\n">>
    \o Indent \o entry.description \o <<"\n">>
    \o Indent \o <<"\n">>
    \o Indent \o <<"C","h","a","n","g","e","s",":","\n">>
    \o Indent \o _format_changes(entry.changes) \o <<"\n">>
    \o Indent

TagsMetadata(tags) == json_dumps(tags)

EntryMetadata(entry) ==
    [id |-> entry.id,
     date |-> isoformat(entry.date),
     category |-> entry.category,
     tags |-> TagsMetadata(entry.tags),
     impact_level |-> entry.impact_level]

\* the store after add_entry(entry): add_texts appends one document
add_entry(st, entry) ==
    Append(st, [page_content |-> EntryText(entry),
                metadata |-> EntryMetadata(entry)])

\* a filter that leaves the categories out
FilterDictNoCategories(query) ==
    [category |-> << >>, tags |-> query.tags]

\* filter_dict: an empty list here is a key the code leaves out, which it does
\* for a list that is None or empty
FilterDict(query) ==
    [category |-> query.categories, tags |-> query.tags]

InList(x, list) == \E i \in 1..Len(list) : list[i] = x

\* the vector store's test of a document's metadata against the filter:
\* {key: {"$in": list}} lets a document pass when its stored value for key is
\* in list; an absent key imposes nothing
PassesFilter(doc, filter) ==
    /\ filter.category # << >> => InList(doc.metadata.category, filter.category)
    /\ filter.tags # << >> => InList(doc.metadata.tags, filter.tags)

Matching(query) ==
    {i \in 1..Len(store) : PassesFilter(store[i], FilterDict(query))}

Min(a, b) == IF a < b THEN a ELSE b

\* similarity_search_with_score(text, k, filter): the k best of the matching
\* documents, in the order of a score this model leaves open
TopK(matching, k) ==
    {h \in [1..Min(k, Cardinality(matching)) -> matching] :
        \A i, j \in DOMAIN h : i # j => h[i] # h[j]}

TitleOf(page_content) ==
    Strip(Replace(Split(page_content, "\n")[2], <<"T","i","t","l","e",":"," ">>, << >>))

\* the ProgressEntry search builds from a document
Reconstruct(doc) ==
    [id |-> doc.metadata.id,
     date |-> fromisoformat(doc.metadata.date),
     title |-> TitleOf(doc.page_content),
     description |-> doc.page_content,
     category |-> doc.metadata.category,
     tags |-> json_loads(doc.metadata.tags),
     impact_level |-> doc.metadata.impact_level,
     changes |-> << >>]

(***************************************************************************)
(* State.                                                                  *)
(***************************************************************************)
Midnight0 == [day |-> 0, hour |-> 0, minute |-> 0, second |-> 0]

NoQuery == [query |-> << >>, categories |-> << >>, tags |-> << >>]

NoBody == [message |-> << >>, entries_created |-> 0]

NoSync == [changes |-> << >>, groups |-> << >>, entries |-> << >>, base |-> 0]

\* op: the operation; ok: it returned (FALSE: it raised, a 500 for a handler);
\* changes, entries, body: what it returned; since, query, limit: its arguments;
\* hits: the store positions of the documents a search returned; base: the
\* length of the store when a sync began
NoLast ==
    [op |-> "none", ok |-> TRUE, changes |-> << >>, entries |-> << >>,
     hits |-> << >>, since |-> Midnight0, query |-> NoQuery, limit |-> 0,
     body |-> NoBody, base |-> 0]

InitBase ==
    /\ now = Midnight0
    /\ repo = << >>
    /\ store = << >>
    /\ added = << >>
    /\ pc = "idle"
    /\ sync = NoSync
    /\ last = NoLast
    /\ cFiles = << >>
    /\ cMsg = << >>
    /\ cResult = NoResult

(***************************************************************************)
(* The environment: time passes, somebody commits.  Between two            *)
(* operations the clock may have moved on or may still read the same.      *)
(* These steps are no request: while no sync is running they clear last.   *)
(***************************************************************************)
Tick(t) ==
    /\ Before(now, t)
    /\ now' = t
    /\ last' = IF pc = "idle" THEN [NoLast EXCEPT !.op = "tick"] ELSE last
    /\ UNCHANGED <<repo, store, added, pc, sync, cFiles, cMsg, cResult>>

Commit(in) ==
    /\ Len(repo) < MaxCommits
    /\ repo' = <<NewCommit(in, now, Len(repo) + 1)>> \o repo
    /\ last' = IF pc = "idle" THEN [NoLast EXCEPT !.op = "commit"] ELSE last
    /\ UNCHANGED <<now, store, added, pc, sync, cFiles, cMsg, cResult>>

(***************************************************************************)
(* Calls of the tracker's methods.                                         *)
(***************************************************************************)
Categorize ==
    /\ cResult = NoResult
    /\ cResult' = _categorize_commit(cFiles, cMsg)
    /\ UNCHANGED <<now, repo, store, added, pc, sync, last, cFiles, cMsg>>

GetRecentChanges(since) ==
    /\ pc = "idle"
    /\ last' = [NoLast EXCEPT !.op = "get_recent_changes", !.since = since,
                              !.changes = get_recent_changes(since)]
    /\ UNCHANGED <<now, repo, store, added, pc, sync, cFiles, cMsg, cResult>>

CreateEntry(title, description, category, tags, impact_level) ==
    /\ pc = "idle"
    /\ last' = [NoLast EXCEPT
                  !.op = "create_progress_entry",
                  !.entries = <<create_progress_entry(title, description,
                                                      category, tags,
                                                      impact_level)>>]
    /\ UNCHANGED <<now, repo, store, added, pc, sync, cFiles, cMsg, cResult>>

(***************************************************************************)
(* The HTTP handlers.  A handler runs to completion; where the code can    *)
(* raise (the repository or the vector store failing), ok = FALSE is the   *)
(* run in which it does, answered with a 500.                              *)
(***************************************************************************)
\* POST /progress/
create_progress(title, description, category, tags, impact_level) ==
    /\ pc = "idle"
    /\ Len(store) < MaxStore
    /\ \E ok \in BOOLEAN :
         LET entry == create_progress_entry(title, description, category,
                                            tags, impact_level)
         IN  IF ok
             THEN /\ store' = add_entry(store, entry)
                  /\ added' = Append(added, entry)
                  /\ last' = [NoLast EXCEPT !.op = "create_progress",
                                            !.entries = <<entry>>]
             ELSE /\ store' = store
                  /\ added' = added
                  /\ last' = [NoLast EXCEPT !.op = "create_progress",
                                            !.ok = FALSE]
    /\ UNCHANGED <<now, repo, pc, sync, cFiles, cMsg, cResult>>

\* POST /search/ and the CLI's search, which passes its own limit
search(query, limit) ==
    /\ pc = "idle"
    /\ \E ok \in BOOLEAN :
         IF ok
         THEN \E hits \in TopK(Matching(query), limit) :
                last' = [NoLast EXCEPT
                           !.op = "search", !.query = query, !.limit = limit,
                           !.hits = hits,
                           !.entries = [i \in 1..Len(hits) |->
                                          Reconstruct(store[hits[i]])]]
         ELSE last' = [NoLast EXCEPT !.op = "search", !.query = query,
                                     !.limit = limit, !.ok = FALSE]
    /\ UNCHANGED <<now, repo, store, added, pc, sync, cFiles, cMsg, cResult>>

\* grouping that keeps only the last change of a category
AddToGroupOverwrite(groups, change) ==
    IF \E i \in 1..Len(groups) : groups[i].category = change.category
    THEN LET i == CHOOSE k \in 1..Len(groups) :
                      groups[k].category = change.category
         IN  [groups EXCEPT ![i].changes = <<change>>]
    ELSE Append(groups, [category |-> change.category, changes |-> <<change>>])

\* changes_by_category after one more change; a dict keeps insertion order
AddToGroup(groups, change) ==
    IF \E i \in 1..Len(groups) : groups[i].category = change.category
    THEN LET i == CHOOSE k \in 1..Len(groups) :
                      groups[k].category = change.category
         IN  [groups EXCEPT ![i].changes = Append(@, change)]
    ELSE Append(groups, [category |-> change.category, changes |-> <<change>>])

RECURSIVE GroupChanges(_, _)
GroupChanges(changes, groups) ==
    IF changes = << >> THEN groups
    ELSE GroupChanges(Tail(changes), AddToGroup(groups, Head(changes)))

Summary(category, category_changes) ==
    <<"D","a","i","l","y"," ","p","r","o","g","r","e","s","s"," ","u","p","d","a","t","e",":"," ">> \o Str(Len(category_changes)) \o <<" ">>
    \o category \o <<" ","c","h","a","n","g","e","s">>

SyncDescription(category_changes) ==
    <<"A","u","t","o","m","a","t","e","d"," ","p","r","o","g","r","e","s","s"," ","e","n","t","r","y"," ","f","r","o","m"," ","g","i","t"," ","c","h","a","n","g","e","s",":","\n","\n">>
    \o Join(<<"\n">>, [i \in 1..Len(category_changes) |->
                       <<"-"," ">> \o category_changes[i].description])

SyncMessage(changes) ==
    <<"S","u","c","c","e","s","s","f","u","l","l","y"," ","s","y","n","c","e","d"," ">> \o Str(Len(changes)) \o <<" ","c","h","a","n","g","e","s">>

\* POST /sync/, up to the loop
SyncStart ==
    /\ pc = "idle"
    /\ \E ok \in BOOLEAN :
         LET changes == get_recent_changes(StartOfDay(now))
             groups == GroupChanges(changes, << >>)
         IN  IF ok
             THEN /\ Len(store) + Len(groups) <= MaxStore
                  /\ pc' = "sync"
                  /\ sync' = [changes |-> changes, groups |-> groups,
                              entries |-> << >>, base |-> Len(store)]
                  /\ last' = [NoLast EXCEPT !.op = "sync_running"]
             ELSE /\ pc' = pc
                  /\ sync' = sync
                  /\ last' = [NoLast EXCEPT !.op = "sync", !.ok = FALSE,
                                            !.base = Len(store)]
    /\ UNCHANGED <<now, repo, store, added, cFiles, cMsg, cResult>>

\* a store from which a failed sync takes its entries back
StoreRolledBack(st, base) == SubSeq(st, 1, base)

\* the store when the loop raises: the except clause does not touch it
StoreAfterFailure(st, base) == st

\* one round of the loop over changes_by_category
SyncStep ==
    /\ pc = "sync"
    /\ Len(sync.entries) < Len(sync.groups)
    /\ \E ok \in BOOLEAN :
         LET g == sync.groups[Len(sync.entries) + 1]
             entry == create_progress_entry(
                          Summary(g.category, g.changes),
                          SyncDescription(g.changes),
                          g.category, <<g.category>>, <<"m","i","n","o","r">>)
         IN  IF ok
             THEN /\ store' = add_entry(store, entry)
                  /\ added' = Append(added, entry)
                  /\ sync' = [sync EXCEPT !.entries = Append(@, entry)]
                  /\ pc' = pc
                  /\ last' = last
             ELSE /\ store' = StoreAfterFailure(store, sync.base)
                  /\ added' = added
                  /\ sync' = NoSync
                  /\ pc' = "idle"
                  /\ last' = [NoLast EXCEPT !.op = "sync", !.ok = FALSE,
                                            !.changes = sync.changes,
                                            !.entries = sync.entries,
                                            !.base = sync.base]
    /\ UNCHANGED <<now, repo, cFiles, cMsg, cResult>>

\* the loop is over: the response
SyncFinish ==
    /\ pc = "sync"
    /\ Len(sync.entries) = Len(sync.groups)
    /\ pc' = "idle"
    /\ sync' = NoSync
    /\ last' = [NoLast EXCEPT
                  !.op = "sync", !.changes = sync.changes,
                  !.entries = sync.entries, !.base = sync.base,
                  !.body = [message |-> SyncMessage(sync.changes),
                            entries_created |-> Len(sync.entries)]]
    /\ UNCHANGED <<now, repo, store, added, cFiles, cMsg, cResult>>

(***************************************************************************)
(* Specifications.                                                         *)
(***************************************************************************)
\* the categorizer alone, on every input of FileLists x Messages
InitCategorize ==
    /\ now = Midnight0
    /\ repo = << >>
    /\ store = << >>
    /\ added = << >>
    /\ pc = "idle"
    /\ sync = NoSync
    /\ last = NoLast
    /\ cFiles \in FileLists
    /\ cMsg \in Messages
    /\ cResult = NoResult

NextCategorize == Categorize

SpecCategorize == InitCategorize /\ [][NextCategorize]_vars

\* the tracker against a growing repository and a running clock
EntryArgs ==
    {[title |-> <<"t">>, description |-> <<"d">>, category |-> CatFeature,
      tags |-> << >>, impact_level |-> <<"m","i","n","o","r">>]}

NextExtract ==
    \/ \E t \in Times : Tick(t)
    \/ \E in \in {CommitFixTest, CommitDocs} : Commit(in)
    \/ \E since \in Times : GetRecentChanges(since)
    \/ \E a \in EntryArgs :
         CreateEntry(a.title, a.description, a.category, a.tags,
                     a.impact_level)

SpecExtract == InitBase /\ [][NextExtract]_vars

\* get_recent_changes on a one-commit repository, for every categorizer input
OneCommitRepos ==
    {<<NewCommit([message |-> m, files |-> f, author |-> <<"a","n","n">>,
                  insertions |-> 1, deletions |-> 0], Midnight0, 1)>> :
        f \in FileLists, m \in Messages}

InitChanges ==
    /\ now = Midnight0
    /\ repo \in OneCommitRepos
    /\ store = << >>
    /\ added = << >>
    /\ pc = "idle"
    /\ sync = NoSync
    /\ last = NoLast
    /\ cFiles = << >>
    /\ cMsg = << >>
    /\ cResult = NoResult

NextChanges == GetRecentChanges(Midnight0)

SpecChanges == InitChanges /\ [][NextChanges]_vars

\* the storage facade: entries of many shapes, queries of many shapes
StoreArgs ==
    {[title |-> <<"f","i","x">>, description |-> <<"d">>, category |-> CatBugfix,
      tags |-> <<<<"u","i">>>>, impact_level |-> <<"m","i","n","o","r">>],
     [title |-> <<" ","p","a","d"," ">>, description |-> <<"d">>, category |-> CatUi,
      tags |-> <<<<"x">>, <<"u","i">>>>, impact_level |-> <<"m","a","j","o","r">>],
     [title |-> <<"T","i","t","l","e",":"," ","x">>, description |-> <<"d">>, category |-> CatFeature,
      tags |-> << >>, impact_level |-> <<"m","i","n","o","r">>],
     [title |-> <<"a","\n","b">>, description |-> <<"d">>, category |-> CatBugfix,
      tags |-> <<<<"x">>>>, impact_level |-> <<"m","i","n","o","r">>],
     [title |-> << >>, description |-> <<"d">>, category |-> CatOther,
      tags |-> <<<<"y">>>>, impact_level |-> <<"m","i","n","o","r">>]}

Queries ==
    [query : {<<"q">>},
     categories : {<< >>, <<CatBugfix>>, <<CatFeature, CatUi>>},
     tags : {<< >>, <<<<"u","i">>>>, <<<<"[","\"","u","i","\"","]">>, <<"y">>>>}]

DefaultLimit == 5

Limits == {1, DefaultLimit}

NextStorage ==
    \/ \E a \in StoreArgs :
         create_progress(a.title, a.description, a.category, a.tags,
                         a.impact_level)
    \/ \E q \in Queries, k \in Limits : search(q, k)

SpecStorage == InitBase /\ [][NextStorage]_vars

\* the handlers that write, on a repository with a history and a clock that
\* is read once an afternoon
Histories ==
    {[i \in 1..Len(h) |-> NewCommit(h[i], Midnight0, Len(h) - i + 1)] :
        h \in SeqsUpTo(CommitInputs, MaxCommits)}

InitSync ==
    /\ now = Midnight0
    /\ repo \in Histories
    /\ store = << >>
    /\ added = << >>
    /\ pc = "idle"
    /\ sync = NoSync
    /\ last = NoLast
    /\ cFiles = << >>
    /\ cMsg = << >>
    /\ cResult = NoResult

SyncTimes == {t \in Times : t.hour = 14 /\ t.second = 0}

NextSync ==
    \/ \E t \in SyncTimes : Tick(t)
    \/ \E a \in EntryArgs :
         create_progress(a.title, a.description, a.category, a.tags,
                         a.impact_level)
    \/ SyncStart
    \/ SyncStep
    \/ SyncFinish

SpecSync == InitSync /\ [][NextSync]_vars

(***************************************************************************)
(* Claims.                                                                 *)
(***************************************************************************)
Range(s) == {s[i] : i \in 1..Len(s)}

\* some path of files ends in one of the suffixes
FileSignal(files, suffixes) ==
    \E f \in Range(files), suf \in suffixes :
        /\ Len(suf) <= Len(f)
        /\ \A i \in 1..Len(suf) : f[Len(f) - Len(suf) + i] = suf[i]

\* the message, lower-cased, has word in it
MsgSignal(message, word) ==
    \E k \in 0..(Len(message) - Len(word)) :
        \A i \in 1..Len(word) : LowerChar(message[k + i]) = word[i]

\* C1: the categorizer returns the label of the first rule that matches, in
\* the order testing (a test-file suffix), ui (a stylesheet or markup suffix),
\* bugfix ("fix" or "bug" in the message), feature, refactor, other; so a
\* file rule always beats a message rule.
C1_FirstMatchWins ==
    cResult # NoResult =>
        LET rules == <<FileSignal(cFiles, TestSuffixes),
                       FileSignal(cFiles, UiSuffixes),
                       MsgSignal(cMsg, <<"f","i","x">>) \/ MsgSignal(cMsg, <<"b","u","g">>),
                       MsgSignal(cMsg, <<"f","e","a","t","u","r","e">>),
                       MsgSignal(cMsg, <<"r","e","f","a","c","t","o","r">>),
                       TRUE>>
            labels == <<CatTesting, CatUi, CatBugfix, CatFeature, CatRefactor,
                        CatOther>>
            first == CHOOSE k \in 1..6 :
                         rules[k] /\ \A j \in 1..(k - 1) : ~rules[j]
        IN  cResult = labels[first]

\* a test file together with a bugfix message was categorized as testing
C1_Witness ==
    /\ cResult = CatTesting
    /\ MsgSignal(cMsg, <<"f","i","x">>)
    /\ FileSignal(cFiles, UiSuffixes)

AllChanges ==
    Range(sync.changes) \cup Range(last.changes)
    \cup UNION {Range(e.changes) : e \in Range(sync.entries)}
    \cup UNION {Range(e.changes) : e \in Range(last.entries)}
    \cup UNION {Range(e.changes) : e \in Range(added)}

\* C2: every CodeChange that get_recent_changes produces carries one of the
\* six category labels, never anything else.
C2_CategoryInEnumeration ==
    \A change \in AllChanges : change.category \in Categories

\* a change of files and a message that no rule matches got the label other
C2_Witness ==
    /\ last.op = "get_recent_changes"
    /\ Len(last.changes) = 1
    /\ last.changes[1].category = CatOther
    /\ last.changes[1].files_changed # << >>
    /\ last.changes[1].description # << >>

\* the commits of the current day made no later than now
TodaysCommits ==
    {c \in Range(repo) :
        /\ c.committed_date \div 86400 = now.day
        /\ c.committed_date <= timestamp(now)}

\* C3: the changes of an entry made by create_progress_entry are the commits
\* of the current day, from 00:00:00 up to the call, and no others.
C3_ChangesAreTodaysCommits ==
    last.op = "create_progress_entry" =>
        {ch.commit_hash : ch \in Range(last.entries[1].changes)}
            = {c.hexsha : c \in TodaysCommits}

\* C4: no two entries in the store have the same id.
C4_IdsUnique ==
    \A i, j \in 1..Len(store) :
        i # j => store[i].metadata.id # store[j].metadata.id

\* C5: with a non-empty categories list, search returns no entry whose stored
\* category is outside the list; with neither categories nor tags, every
\* stored entry is eligible, so search returns as many as limit allows.
C5_CategoryFilter ==
    (last.op = "search" /\ last.ok) =>
        /\ last.query.categories # << >> =>
               \A k \in 1..Len(last.hits) :
                   /\ store[last.hits[k]].metadata.category
                          \in Range(last.query.categories)
                   /\ last.entries[k].category \in Range(last.query.categories)
        /\ (last.query.categories = << >> /\ last.query.tags = << >>) =>
               Len(last.hits) = Min(last.limit, Len(store))

\* a search by category returned an entry while the store held another entry,
\* of a category the query did not name
C5_Witness ==
    /\ last.op = "search"
    /\ last.query.categories # << >>
    /\ last.query.tags = << >>
    /\ Len(last.hits) = 1
    /\ last.limit = DefaultLimit
    /\ \E i \in 1..Len(store) :
           store[i].metadata.category \notin Range(last.query.categories)

\* the stored entries that share a tag with the query
SharingATag(query) ==
    {i \in 1..Len(added) : Range(added[i].tags) \cap Range(query.tags) # {}}

\* C6: with a non-empty tags list (and no categories, and a limit the store
\* does not exceed), search returns exactly the entries that have at least one
\* of the query's tags.
C6_TagsMatchAny ==
    ( /\ last.op = "search"
      /\ last.ok
      /\ last.query.tags # << >>
      /\ last.query.categories = << >>
      /\ last.limit >= Len(store) ) =>
        Range(last.hits) = SharingATag(last.query)

\* C7: the title of an entry that search returns is the title the entry was
\* added with.
C7_TitleRoundTrip ==
    (last.op = "search" /\ last.ok) =>
        \A k \in 1..Len(last.hits) :
            last.entries[k].title = added[last.hits[k]].title

\* C8 as stated: when a sync fails, the store holds no entry that sync made.
C8_AllOrNothing ==
    (last.op = "sync" /\ ~last.ok) => Len(store) = last.base

CategoriesOf(changes) == {ch.category : ch \in Range(changes)}

\* C8 as amended: when the entry of a category cannot be made or stored, the
\* sync fails with a server error and goes on to no further category, and the
\* entries it stored for the categories before that one stay in the store.
C8_FailureKeepsEarlierEntries ==
    (last.op = "sync" /\ ~last.ok) =>
        /\ last.body = NoBody
        /\ pc = "idle"
        /\ Len(store) = last.base + Len(last.entries)
        /\ \A k \in 1..Len(last.entries) :
               /\ store[last.base + k].metadata.id = last.entries[k].id
               /\ store[last.base + k].metadata.category
                      = last.entries[k].category
        /\ \/ Len(last.entries) < Cardinality(CategoriesOf(last.changes))
           \/ last.changes = << >>

\* a sync failed on its second category, after storing the entry of its first
C8_Witness ==
    /\ last.op = "sync"
    /\ ~last.ok
    /\ Len(last.entries) = 1
    /\ Len(store) = last.base + 1

\* the place of the commit with this hash in the history, 1 the newest
PlaceOf(hexsha) == CHOOSE i \in 1..Len(repo) : repo[i].hexsha = hexsha

\* C9: get_recent_changes(since) returns one CodeChange for each commit made
\* at or after since, newest first, with ids that differ; when every commit
\* is older than since it returns the empty list and does not fail.
C9_OneChangePerCommit ==
    last.op = "get_recent_changes" =>
        LET ch == last.changes
            wanted == {i \in 1..Len(repo) :
                          ~Before(fromtimestamp(repo[i].committed_date),
                                  last.since)}
        IN  /\ last.ok
            /\ Len(ch) = Cardinality(wanted)
            /\ {ch[k].commit_hash : k \in 1..Len(ch)}
                   = {repo[i].hexsha : i \in wanted}
            /\ \A k, l \in 1..Len(ch) :
                   k < l => /\ PlaceOf(ch[k].commit_hash)
                                < PlaceOf(ch[l].commit_hash)
                            /\ ch[k].id # ch[l].id
            /\ wanted = {} => ch = << >>

\* two commits were returned while since lay after midnight of day 0
C9_Witness ==
    /\ last.op = "get_recent_changes"
    /\ Len(last.changes) = 2
    /\ timestamp(last.since) > 0

\* since lay after every commit of a non-empty history
C9_WitnessEmpty ==
    /\ last.op = "get_recent_changes"
    /\ repo # << >>
    /\ last.changes = << >>

CountOf(changes, category) ==
    Cardinality({i \in 1..Len(changes) : changes[i].category = category})

RECURSIVE SumOfCounts(_, _)
SumOfCounts(changes, entries) ==
    IF entries = << >> THEN 0
    ELSE CountOf(changes, Head(entries).category)
         + SumOfCounts(changes, Tail(entries))

\* C10: a sync that succeeds stores one entry for each category among the
\* changes it extracted: entries_created is the number of those categories,
\* each entry has its category c, the tags [c] and a title giving the number
\* of changes of category c, the numbers add up to the number of changes in
\* the message, and with no change nothing is stored.
C10_OneEntryPerCategory ==
    (last.op = "sync" /\ last.ok) =>
        LET cats == CategoriesOf(last.changes)
            n == Len(last.entries)
        IN  /\ last.body.entries_created = Cardinality(cats)
            /\ n = Cardinality(cats)
            /\ {last.entries[k].category : k \in 1..n} = cats
            /\ Len(store) = last.base + n
            /\ \A k \in 1..n :
                   LET e == last.entries[k]
                       d == store[last.base + k]
                   IN  /\ e.tags = <<e.category>>
                       /\ e.title
                              = <<"D","a","i","l","y"," ","p","r","o","g","r","e","s","s"," ","u","p","d","a","t","e",":"," ">>
                                \o Str(CountOf(last.changes, e.category))
                                \o <<" ">> \o e.category \o <<" ","c","h","a","n","g","e","s">>
                       /\ d.metadata.id = e.id
                       /\ d.metadata.category = e.category
                       /\ json_loads(d.metadata.tags) = <<e.category>>
            /\ SumOfCounts(last.changes, last.entries) = Len(last.changes)
            /\ last.body.message
                   = <<"S","u","c","c","e","s","s","f","u","l","l","y"," ","s","y","n","c","e","d"," ">> \o Str(Len(last.changes))
                     \o <<" ","c","h","a","n","g","e","s">>
            /\ last.changes = << >> => Len(store) = last.base

\* a sync stored two entries, for two categories
C10_Witness ==
    /\ last.op = "sync"
    /\ last.ok
    /\ Len(last.entries) = 2
    /\ Len(store) = last.base + 2

====
